---- MODULE Spec2Model ----
(***************************************************************************)
(* signal402-mcp: the payment-guarded fetch cycle (src/src/client.ts), the *)
(* Para signer adapter (account.ts) and the delegated-session manager      *)
(* (src/src/session.ts), as a state machine.                               *)
(*                                                                         *)
(* Node.js runs one continuation at a time; every `await` of a network     *)
(* reply is a point where another call's continuation may run.  Each       *)
(* action below is one such continuation: the code from one network reply  *)
(* to the next request (or to the return of x402Fetch).                    *)
(*                                                                         *)
(* Units: amounts are in the asset's smallest unit (USDC, 6 decimals);     *)
(* caps (max_cost, maxCostUsd) are held in millionths of a USD, so that    *)
(* the code's  Number(amount) / 1e6 > cap  is a comparison of integers.    *)
(* Times are unix milliseconds relative to the start of the process.       *)
(***************************************************************************)
EXTENDS Integers, Sequences, FiniteSets, TLC

\* ---------------------------------------------------------------- bounds

\* How many times the clock advances (by TickMs) in a run.
MaxTicks == 1

\* The x402Fetch invocations of a run; both may be in flight at once.
Calls == {1, 2}

\* ------------------------------------------------------ program constants

\* session.ts:254  const bufferMs = 5 * 60 * 1000
BufferMs == 5 * 60 * 1000
\* client.ts:44  Number(amount) / 1e6
UsdcUnit == 1000000
\* server entry, signal402_call: max_cost: z.number().positive().default(0.10),
\* in millionths of a USD.
DefaultMaxCost == 100000
\* README, "Discovery tools ... Costs $0.01-$0.03 per query": the dearest
\* discovery query, in the asset's smallest unit.
DiscoveryMaxCost == 30000

\* The clock advances in steps of one renewal buffer, so that a record is seen
\* strictly inside, exactly at, and beyond the buffer.
TickMs == BufferMs

\* ------------------------------------------------------------ input sets

\* A spending cap: _currentMaxCost / opts?.maxCostUsd.  NoCap is undefined.
NoCap == [set |-> FALSE, usd |-> 0]
Cap(v) == [set |-> TRUE, usd |-> v]
\* max_cost as a caller of signal402_call may send it: left out, or a number
\* (0 is refused by z.number().positive()).
MaxCostInputs == {[given |-> FALSE, value |-> 0], [given |-> TRUE, value |-> 0], [given |-> TRUE, value |-> 20000]}
\* maxAmountRequired of the selected requirement of a 402 reply, when it is a
\* number.
Amounts == {10000, 1000000}
\* The field as the guard finds it: a number, or missing / not numeric (a
\* requirement that names its price `amount`, as test/probe-x402.ts:118 allows).
NoAmount == [numeric |-> FALSE, value |-> 0]
AmountField(v) == [numeric |-> TRUE, value |-> v]
AmountFields == {AmountField(a) : a \in Amounts} \cup {NoAmount}
\* A variant of the registration that also registers an "upto" scheme.
RegisteredSchemesWithUpto == {"exact", "upto"}
\* client.ts:37-38  the schemes registered with the x402 client.
RegisteredSchemes == {"exact"}
\* The scheme a 402 reply offers.
OfferedSchemes == {"exact", "upto"}
\* Status of a reply of the target service.
Statuses == {200, 402, 500}
\* Lifetime the proxy grants a new session, in ticks (its reply's expiresAt is
\* not checked by establishSession).
Lifetimes == {1, 3}
\* expiresAt of a record left in session.json by an earlier process.
EarlierExpiries == {TickMs, 2 * TickMs}
\* How a request to clara-proxy ends.
Replies == {"ok", "status_error", "network_error"}
SignReplies == Replies \cup {"no_signature"}

\* The wallet in wallet.json.
WalletAddress == "0xAbC"
WalletId == "w1"
\* wallet.ts:12-17  wallet.json: absent, or holding a WalletData record.
NoWalletFile == [exists |-> FALSE, address |-> "none", walletId |-> "none", email |-> "none"]
WalletData(address, walletId, email) ==
    [exists |-> TRUE, address |-> address, walletId |-> walletId, email |-> email]

\* String.prototype.toLowerCase on the addresses of the model.
ToLowerCase(a) == IF a = "0xAbC" THEN "0xabc" ELSE a

\* A secp256k1 key pair: private key k, and the public key derived from it,
\* named k as well.
KeyPair(k) == [privateKey |-> k, publicKey |-> k]
\* session.ts:22-29  SessionData.
SessionData(id, address, pair, expiresAt, createdAt) ==
    [sessionId |-> id, address |-> address,
     sessionPrivateKey |-> pair.privateKey, sessionPublicKey |-> pair.publicKey,
     expiresAt |-> expiresAt, createdAt |-> createdAt]
NoSession == SessionData(0, "none", KeyPair(0), 0, 0)
\* session.json: absent, or holding a record.
AbsentFile == [exists |-> FALSE, corrupt |-> FALSE, data |-> NoSession]
FileOf(session) == [exists |-> TRUE, corrupt |-> FALSE, data |-> session]
\* session.json holding text that JSON.parse rejects.
CorruptFile == [exists |-> TRUE, corrupt |-> TRUE, data |-> NoSession]

VARIABLES
    now,              \* Date.now()
    walletFile,       \* ~/.signal402/wallet.json exists
    sessionFile,      \* ~/.signal402/session.json
    fetchWithPayment, \* client.ts:22  _fetchWithPayment is set
    currentMaxCost,   \* client.ts:25  _currentMaxCost
    keysGenerated,    \* keypairs generated so far (names the next one)
    sessionsIssued,   \* sessions the proxy has created so far (names the next one)
    uuidsIssued,      \* crypto.randomUUID() calls so far (names the next value)
    report,           \* what the last `signal402 status` run displayed
    poll,             \* a pollBalance in progress (fund / setup commands)
    setup,            \* per getOrCreateWallet invocation: its position and result
    proxyWallets,     \* the wallets clara-proxy has created (names the next one)
    call              \* per x402Fetch invocation: its position, inputs and history

vars == <<now, walletFile, sessionFile, fetchWithPayment, currentMaxCost, keysGenerated, sessionsIssued,
          uuidsIssued, report, poll, setup, proxyWallets, call>>

\* A variant of the request nonce taken from the clock.
NonceFromClock(n) == now \div 1000 + 1

\* session.ts:204  crypto.randomUUID(): a new value each time, n values
\* having been drawn before.
RandomUUID(n) == n + 1

\* account.ts:32-46  the body of the sign-raw request: { data: hash } with the
\* EIP-712 hash of the payment authorization, which covers the amount.
SignBody(rec) == [data |-> <<"hashTypedData", rec.hasAmount, rec.amount>>]
\* session.ts:206  sha256hex(body)
Sha256Hex(x) == <<"sha256", x>>

\* session.ts:204-215  the canonical message signRequest signs:
\* tag, method, path, body digest, timestamp (seconds), nonce.
CanonicalMessage(method, path, body, nonce) ==
    [tag |-> "CLARA-REQUEST-SIG-V1", method |-> method, path |-> path,
     bodyDigest |-> Sha256Hex(body), timestamp |-> now \div 1000, nonce |-> nonce]
NoMessage ==
    [tag |-> "none", method |-> "none", path |-> "none",
     bodyDigest |-> Sha256Hex([data |-> <<"hashTypedData", FALSE, 0>>]), timestamp |-> 0, nonce |-> 0]

\* A variant of the joined message with the nonce ahead of the timestamp.
CanonicalLinesNonceFirst(msg) ==
    <<msg.tag, msg.method, msg.path, <<"sha256:", msg.bodyDigest>>, msg.nonce, msg.timestamp>>

\* session.ts:208-215  [...].join('\n'): the lines of the canonical message in
\* the order they are signed.
CanonicalLines(msg) ==
    <<msg.tag, msg.method, msg.path, <<"sha256:", msg.bodyDigest>>, msg.timestamp, msg.nonce>>

\* account.ts:45-46, 50-54  the sign-raw request of signTypedData as it is
\* sent: its method, its path and its body.
SignRawRequest(method, path, body) == [method |-> method, path |-> path, body |-> body]
NoRequest == SignRawRequest("none", "none", [data |-> <<"hashTypedData", FALSE, 0>>])

\* session.ts:217-224  the signature over the canonical message, made with
\* the session's private key.
SignWith(msg, key) == [signed |-> msg, lines |-> CanonicalLines(msg), by |-> key]

\* The headers of a request to clara-proxy: the names present, and the values
\* of the X-Clara-* ones.
Headers(names, address, sessionId, signature, timestamp, nonce) ==
    [names |-> names, address |-> address, session |-> sessionId, signature |-> signature,
     timestamp |-> timestamp, nonce |-> nonce]
NoHeaders == Headers({}, "none", 0, SignWith(NoMessage, 0), 0, 0)

\* session.ts:128-135  the headers of the bootstrap sign-raw.
BootstrapHeaders(address) ==
    Headers({"Content-Type", "X-Clara-Address"}, address, 0, SignWith(NoMessage, 0), 0, 0)

\* A variant of signRequest that leaves the nonce header out.
SignRequestNoNonce(session, msg) ==
    Headers({"Content-Type", "X-Clara-Address", "X-Clara-Session", "X-Clara-Signature", "X-Clara-Timestamp"},
            session.address, session.sessionId, SignWith(msg, session.sessionPrivateKey), msg.timestamp, 0)

\* session.ts:217-236 and account.ts:50-54  the headers signRequest returns
\* for a canonical message, sent next to Content-Type.
SignRequest(session, msg) ==
    Headers({"Content-Type", "X-Clara-Address", "X-Clara-Session", "X-Clara-Signature", "X-Clara-Timestamp",
             "X-Clara-Nonce"},
            session.address, session.sessionId, SignWith(msg, session.sessionPrivateKey),
            msg.timestamp, msg.nonce)

\* What secp.signAsync returns: r, s and the recovery id.
EcdsaSignature(r, s, recovery) == [r |-> r, s |-> s, recovery |-> recovery]
\* The values of r and of s that are followed: one, two and four bytes long.
ScalarSamples == {1, 255, 256, 2147483647}
EcdsaSignatures == {EcdsaSignature(r, s, v) : r \in ScalarSamples, s \in ScalarSamples \ {256}, v \in {0, 1}}

\* sig.toCompactRawBytes(): a number as `len` bytes, most significant first.
RECURSIVE ToBytes(_, _)
ToBytes(n, len) == IF len = 0 THEN <<>> ELSE Append(ToBytes(n \div 256, len - 1), n % 256)

HexDigits == <<"0", "1", "2", "3", "4", "5", "6", "7", "8", "9", "a", "b", "c", "d", "e", "f">>
\* session.ts:42  b.toString(16).padStart(2, '0')
ByteToHex(b) == <<HexDigits[(b \div 16) + 1], HexDigits[(b % 16) + 1]>>
\* session.ts:41-43  bytesToHex
RECURSIVE BytesToHex(_)
BytesToHex(bytes) == IF bytes = <<>> THEN <<>> ELSE ByteToHex(Head(bytes)) \o BytesToHex(Tail(bytes))

\* A variant of the encoding that stores the recovery id as it is.
EncodeSignatureNoOffset(sig) ==
    LET sigBytes == ToBytes(sig.r, 32) \o ToBytes(sig.s, 32)
        fullSig == [i \in 1..65 |-> IF i <= 64 THEN sigBytes[i] ELSE sig.recovery % 256] IN
    <<"0", "x">> \o BytesToHex(fullSig)

\* session.ts:222-233  the X-Clara-Signature header: a 65-byte array that
\* holds the compact signature and, as its last byte, recovery + 27, in
\* hexadecimal after "0x".
EncodeSignature(sig) ==
    LET sigBytes == ToBytes(sig.r, 32) \o ToBytes(sig.s, 32)
        fullSig == [i \in 1..65 |-> IF i <= 64 THEN sigBytes[i] ELSE (sig.recovery + 27) % 256] IN
    <<"0", "x">> \o BytesToHex(fullSig)

\* A reply to a sign-raw request: its status (0 for a request that failed in
\* transport) and the `signature` and `result` fields of its JSON body, each a
\* string of characters; <<>> stands for a field that is missing or empty,
\* which `||` and `!sig` treat alike.
SignRawReply(status, signature, result) == [status |-> status, signature |-> signature, result |-> result]
NoReply == SignRawReply(0, <<>>, <<>>)
SignatureTexts == {<<>>, <<"a", "b">>, <<"0", "x", "a", "b">>}
ResultTexts == {<<>>, <<"c", "d">>, <<"0", "x", "c", "d">>}
\* Every reply: a transport failure, or a status with a body.
SignRawReplies ==
    {NoReply} \cup {SignRawReply(st, sg, rs) : st \in {200, 500}, sg \in SignatureTexts, rs \in ResultTexts}
\* The replies a whole run is followed with: one that yields a signature and
\* one that is refused (every failing reply ends the call in the same way).
PaySignReplies == {SignRawReply(200, <<"a", "b">>, <<>>), SignRawReply(500, <<>>, <<>>)}

\* An invocation that has not started.  The fields after `error` are history:
\* what the invocation saw and sent.
IdleCall ==
    [pc |-> "idle", kind |-> "none", cap |-> NoCap,
     first |-> 0, amount |-> 0, hasAmount |-> FALSE, second |-> 0, paymentHeader |-> FALSE,
     outcome |-> "none", result |-> 0, error |-> "none",
     scheme |-> "none", guard |-> "none", gsPath |-> "none", failed |-> "none", parseFailed |-> FALSE,
     session |-> NoSession, pendingKey |-> 0, pubKey |-> 0, siweKey |-> 0, submittedKey |-> 0,
     authSession |-> 0, authMsg |-> NoMessage, bootHeaders |-> NoHeaders, payHeaders |-> NoHeaders,
     wrote |-> FALSE, overlap |-> FALSE, built |-> FALSE,
     tool |-> [returned |-> FALSE, thrown |-> FALSE, isError |-> FALSE, text |-> "none"],
     args |-> [url |-> FALSE, name |-> FALSE], payRequest |-> NoRequest,
     payReplied |-> FALSE, payReply |-> NoReply, paySig |-> <<>>,
     ecdsa |-> EcdsaSignature(1, 1, 0), sigHeader |-> <<>>,
     nSend |-> 0, nPaySign |-> 0, nKeygen |-> 0, log |-> <<>>]

\* ------------------------------------------------------------ pure parts

\* Variants of the validity test with the comparison turned round, and with
\* the renewal buffer left out.
SessionValidInverted(session, t) == session.expiresAt < t + BufferMs
SessionValidNoBuffer(session, t) == session.expiresAt > t

\* session.ts:253-257  the persisted record is still usable.
SessionValid(session, t) == session.expiresAt > t + BufferMs

\* client.ts:44  Number(amount): NaN for a missing or non-numeric field.
NaN == [nan |-> TRUE, n |-> 0]
ToNumber(field) == IF field.numeric THEN [nan |-> FALSE, n |-> field.value] ELSE NaN
\* The `>` of IEEE numbers: false whenever the left side is NaN.
Greater(x, y) == ~x.nan /\ x.n > y

\* client.ts:42-45  the guard hook's decision, given the shared cap it reads
\* and the requirement's maxAmountRequired field:
\* costUsd = Number(amount) / 1e6 > _currentMaxCost, both sides multiplied by
\* 1e6: the amount against the cap in the asset's smallest unit.
GuardAborts(cur, field) ==
    /\ cur.set
    /\ Greater(ToNumber(field), cur.usd * (UsdcUnit \div 1000000))

\* A variant of the cost text with two decimals.
CostToFixed2(micro) ==
    LET q == (micro + 5000) \div 10000 IN
    ToString(q \div 100) \o "." \o ToString((q \div 10) % 10) \o ToString(q % 10)

\* client.ts:48  costUsd.toFixed(4), costUsd being micro / 1e6: the cost
\* rounded to a ten-thousandth of a USD, with four decimals.
CostToFixed4(micro) ==
    LET q == (micro + 50) \div 100 IN
    ToString(q \div 10000) \o "." \o ToString((q \div 1000) % 10) \o ToString((q \div 100) % 10)
        \o ToString((q \div 10) % 10) \o ToString(q % 10)

\* The decimals of frac / 10^width, without trailing zeros.
RECURSIVE Decimals(_, _)
Decimals(frac, width) ==
    IF frac = 0 THEN ""
    ELSE ToString(frac \div 10^(width - 1)) \o Decimals(frac % 10^(width - 1), width - 1)

\* client.ts:48  `${_currentMaxCost}`: the cap (millionths of a USD) as
\* JavaScript prints the number.
NumberText(micro) ==
    IF micro % 1000000 = 0 THEN ToString(micro \div 1000000)
    ELSE ToString(micro \div 1000000) \o "." \o Decimals(micro % 1000000, 6)

\* client.ts:46-51  the reason the hook gives for an abort.
AbortReason(cur, field) ==
    "Service costs $" \o CostToFixed4(field.value) \o " per request, exceeds max_cost of $"
        \o NumberText(cur.usd) \o ". Increase max_cost or choose a cheaper service."

\* A variant of the key generation that makes one key pair and hands it out
\* again.
GenerateSessionKeypairCached(n) == KeyPair(2)

\* session.ts:57-61  generateSessionKeypair(): a new random private key and
\* its public key, n pairs having been generated before.
GenerateSessionKeypair(n) == KeyPair(n + 1)

\* server entry, signal402_call schema: zod: max_cost is positive, 0.10 when omitted.
MaxCostAccepted(mc) == ~mc.given \/ mc.value > 0
MaxCostOf(mc) == IF mc.given THEN mc.value ELSE DefaultMaxCost

\* The outcome of a fetch: a Response, or an Error thrown.
Response(status) == [kind |-> "response", status |-> status, error |-> "none"]
Thrown(msg) == [kind |-> "error", status |-> 0, error |-> msg]

\* Variants of x402Fetch's try/finally: a catch that turns an error into a
\* response; a check of res.ok (as fetchCatalog makes) inside x402Fetch; a
\* still-402 reply turned into an error.
X402FetchSwallowsError(o) == IF o.kind = "error" THEN Response(500) ELSE o
X402FetchThrowsUnlessOk(o) ==
    IF o.kind = "response" /\ o.status \notin 200..299 THEN Thrown("fetch failed: status") ELSE o
X402FetchRejects402(o) ==
    IF o.kind = "response" /\ o.status = 402 THEN Thrown("payment rejected") ELSE o

\* client.ts:74-78  what x402Fetch hands its caller: the outcome of payFetch
\* (a response, or the error thrown), unchanged.
X402FetchOutcome(o) == o

\* What a tool handler hands the MCP server: a result it returned (isError or
\* not, with its text), or an error it threw.
ToolResult(isError, text) == [returned |-> TRUE, thrown |-> FALSE, isError |-> isError, text |-> text]
ToolThrown(msg) == [returned |-> FALSE, thrown |-> TRUE, isError |-> FALSE, text |-> msg]

\* A variant of the signal402_call handler without its catch block.
Signal402CallRethrows(o) ==
    IF o.kind = "error"
    THEN ToolThrown(o.error)
    ELSE ToolResult(FALSE, "HTTP " \o ToString(o.status))

\* server entry, signal402_call handler, lines 166-195: the response is
\* returned as text headed by its status line; an error thrown inside the try
\* block is returned as an isError result carrying err.message.
Signal402CallResult(o) ==
    IF o.kind = "error"
    THEN ToolResult(TRUE, "Error: " \o o.error)
    ELSE ToolResult(FALSE, "HTTP " \o ToString(o.status))

\* server entry, the catalog / assess / recommend / probe handlers and
\* client.ts:83-139: no try block; an error of x402Fetch, and the error the
\* fetch helper throws for a response that is not ok, leave the handler.
DiscoveryToolResult(o) ==
    IF o.kind = "error" THEN ToolThrown(o.error)
    ELSE IF ~(o.status \in 200..299) THEN ToolThrown("fetch failed: " \o ToString(o.status))
    ELSE ToolResult(FALSE, "json")

HandlerResult(kind, o) ==
    IF kind = "call" THEN Signal402CallResult(o) ELSE DiscoveryToolResult(o)

\* A variant of the return that leaves the shared cap as the call set it.
FinishKeepsCap(c, upd, o) ==
    LET r == X402FetchOutcome(o) IN
    /\ call' = [call EXCEPT ![c] = [upd EXCEPT !.pc = "done", !.outcome = r.kind,
                                               !.result = r.status, !.error = r.error,
                                               !.tool = HandlerResult(upd.kind, r)]]
    /\ UNCHANGED currentMaxCost

\* client.ts:75-78  x402Fetch returns or throws; its finally resets the cap.
\* `upd` is the invocation's record as the continuation leaves it.
Finish(c, upd, o) ==
    LET r == X402FetchOutcome(o) IN
    /\ call' = [call EXCEPT ![c] = [upd EXCEPT !.pc = "done", !.outcome = r.kind,
                                               !.result = r.status, !.error = r.error,
                                               !.tool = HandlerResult(upd.kind, r)]]
    /\ currentMaxCost' = NoCap

\* The requests a call may send to clara-proxy, as they are logged.
GatewayRequests == {"nonce", "boot-sign-raw", "create-session", "pay-sign-raw"}
\* Response.ok
Ok(status) == status \in 200..299

Pcs == {"idle", "first", "hook", "session", "nonce", "bootSign", "create", "paySign", "second", "done"}
\* Positions inside establishSession.
EstablishPcs == {"nonce", "bootSign", "create"}

\* ------------------------------------------------- the CLI commands' state

\* status.ts:47-62  what a status run displayed: whether it found the wallet,
\* and its session line.  `runs` counts the runs.
NoReport == [runs |-> 0, wallet |-> FALSE, balance |-> "none", session |-> "none"]
\* pollBalance: not started.  `elapsed` is Date.now() - start, in milliseconds.
IdlePoll == [pc |-> "idle", elapsed |-> 0, balance |-> "none"]
\* The getOrCreateWallet invocations of a run; both may be in flight at once.
Setups == {1, 2}
IdleSetup == [pc |-> "idle", email |-> "none", walletId |-> "none", address |-> "none",
              isNew |-> FALSE, isRecovered |-> FALSE, wrote |-> FALSE, error |-> "none"]
\* clara-proxy's wallets: how many it has created, and which one it holds for
\* the user's email (0 if none).
ProxyWallets(created, byEmail) == [created |-> created, byEmail |-> byEmail]
\* The k-th wallet the proxy creates.
WalletOf(k) ==
    CASE k = 1 -> [address |-> WalletAddress, walletId |-> WalletId]
      [] k = 2 -> [address |-> "0xDeF", walletId |-> "w2"]
      [] OTHER -> [address |-> "0x123", walletId |-> "w3"]
\* The email a setup may be given.
UserEmail == "user@example.com"

CommandsInit ==
    /\ report = NoReport
    /\ poll = IdlePoll
    /\ setup = [i \in Setups |-> IdleSetup]
    /\ proxyWallets = ProxyWallets(IF walletFile.exists THEN 1 ELSE 0, 0)

TypeOK ==
    /\ now \in 0..(MaxTicks * TickMs)
    /\ walletFile.exists \in BOOLEAN
    /\ fetchWithPayment \in BOOLEAN
    /\ sessionFile.exists \in BOOLEAN
    /\ currentMaxCost.set \in BOOLEAN
    /\ keysGenerated \in Nat
    /\ sessionsIssued \in Nat
    /\ uuidsIssued \in Nat
    /\ \A c \in Calls :
          /\ call[c].pc \in Pcs
          /\ call[c].kind \in {"none", "call", "discovery", "assess", "probe", "fetchProbe"}
          /\ call[c].outcome \in {"none", "response", "error"}
          /\ call[c].guard \in {"none", "pass", "abort"}
          /\ call[c].gsPath \in {"none", "loaded", "established"}
          /\ call[c].failed \in {"none", "first", "second"} \cup GatewayRequests
          /\ call[c].first \in Statuses \cup {0}
          /\ call[c].hasAmount \in BOOLEAN
          /\ call[c].built \in BOOLEAN
          /\ call[c].scheme \in OfferedSchemes \cup {"none"}
          /\ call[c].amount \in Amounts \cup {0}
          /\ call[c].second \in Statuses \cup {0}

Init ==
    /\ now = 0
    /\ walletFile \in {WalletData(WalletAddress, WalletId, "none"), NoWalletFile}
    /\ sessionFile \in {AbsentFile} \cup
          {FileOf(SessionData(1, ToLowerCase(WalletAddress), KeyPair(1), e, 0)) : e \in EarlierExpiries}
    /\ fetchWithPayment = FALSE
    /\ currentMaxCost = NoCap
    /\ keysGenerated = 1
    /\ sessionsIssued = 1
    /\ uuidsIssued = 0
    /\ CommandsInit
    /\ call = [c \in Calls |-> IdleCall]

\* How a balance read (checkUsdcBalance) ends: the balance with two decimals,
\* or a failure.
BalanceReads == {"0.00", "1.00", "error"}

\* fund.ts / setup.ts  pollBalance's INTERVAL_MS and TIMEOUT_MS.
IntervalMs == 10000
TimeoutMs == 300000
\* How long a checkUsdcBalance request may take beyond no time at all.
LatencyMs == 5000
\* Date.now() - start is followed up to here; past it only "later than the
\* timeout" matters.
PollHorizon == TimeoutMs + IntervalMs + LatencyMs
Later(elapsed, ms) == IF elapsed + ms > PollHorizon THEN PollHorizon ELSE elapsed + ms

PollStep ==
    UNCHANGED <<now, walletFile, sessionFile, fetchWithPayment, currentMaxCost, keysGenerated,
                sessionsIssued, uuidsIssued, report, setup, proxyWallets, call>>

\* pollBalance(address): start = Date.now(), and the first check is scheduled
\* INTERVAL_MS from now.
PollBalance ==
    /\ poll.pc = "idle"
    /\ poll' = [poll EXCEPT !.pc = "waiting", !.elapsed = 0]
    /\ PollStep

\* The timer fires: check() runs and requests the balance.
PollTimer ==
    /\ poll.pc = "waiting"
    /\ poll' = [poll EXCEPT !.pc = "checking", !.elapsed = Later(@, IntervalMs)]
    /\ PollStep

\* check() after its await: a balance above zero resolves; a zero balance
\* resolves once the timeout has passed and otherwise schedules the next
\* check; a thrown balance request (the catch block) schedules the next check.
PollCheck ==
    /\ poll.pc = "checking"
    /\ \E b \in BalanceReads, lat \in {0, LatencyMs} :
          LET t == Later(poll.elapsed, lat) IN
          IF b = "error"
          THEN poll' = [poll EXCEPT !.pc = "waiting", !.elapsed = t]
          ELSE IF b # "0.00"
          THEN poll' = [poll EXCEPT !.pc = "resolved", !.elapsed = t, !.balance = b]
          ELSE IF t > TimeoutMs
          THEN poll' = [poll EXCEPT !.pc = "resolved", !.elapsed = t, !.balance = b]
          ELSE poll' = [poll EXCEPT !.pc = "waiting", !.elapsed = t]
    /\ PollStep

\* The frame of a getOrCreateWallet continuation: it touches its own record,
\* the wallet file and the proxy's wallets.
SetupStep ==
    UNCHANGED <<now, sessionFile, fetchWithPayment, currentMaxCost, keysGenerated, sessionsIssued,
                uuidsIssued, report, poll, call>>

\* wallet.ts:85-88  mkdirSync and writeFileSync(WALLET_FILE, ...): the file
\* after the save, whatever it held before.
SaveWallet(file, address, walletId, email) == WalletData(address, walletId, email)

\* wallet.ts:19-37  getOrCreateWallet(email?) up to its first await: an
\* existing wallet file is returned as it is; otherwise the creation request
\* is sent to clara-proxy.
GetOrCreateWallet(i) ==
    /\ setup[i].pc = "idle"
    /\ \A j \in Setups : j < i => setup[j].pc # "idle"
    /\ \E email \in {"none", UserEmail} :
          IF walletFile.exists
          THEN setup' = [setup EXCEPT ![i] = [@ EXCEPT !.pc = "done", !.email = email,
                                                       !.address = walletFile.address,
                                                       !.walletId = walletFile.walletId]]
          ELSE setup' = [setup EXCEPT ![i] = [@ EXCEPT !.pc = "creating", !.email = email]]
    /\ UNCHANGED <<walletFile, proxyWallets>>
    /\ SetupStep

\* wallet.ts:39-90  the reply to POST /api/v1/wallets: 409 for an email the
\* proxy already holds a wallet for (the lookup request follows); an error
\* status (thrown); or the new wallet, which is saved.
CreateWalletResponse(i) ==
    /\ setup[i].pc = "creating"
    /\ \/ /\ setup[i].email # "none"
          /\ proxyWallets.byEmail # 0
          /\ setup' = [setup EXCEPT ![i] = [@ EXCEPT !.pc = "lookup", !.isRecovered = TRUE,
                                                       !.walletId = WalletOf(proxyWallets.byEmail).walletId]]
          /\ UNCHANGED <<walletFile, proxyWallets>>
       \/ /\ setup' = [setup EXCEPT ![i] = [@ EXCEPT !.pc = "done", !.error = "Wallet creation failed"]]
          /\ UNCHANGED <<walletFile, proxyWallets>>
       \/ /\ setup[i].email = "none" \/ proxyWallets.byEmail = 0
          /\ LET k == proxyWallets.created + 1
                 w == WalletOf(k) IN
             /\ proxyWallets' = ProxyWallets(k, IF setup[i].email # "none" THEN k ELSE proxyWallets.byEmail)
             /\ walletFile' = SaveWallet(walletFile, w.address, w.walletId, setup[i].email)
             /\ setup' = [setup EXCEPT ![i] = [@ EXCEPT !.pc = "done", !.isNew = TRUE, !.wrote = TRUE,
                                                          !.address = w.address, !.walletId = w.walletId]]
    /\ SetupStep

\* wallet.ts:51-90  the reply to the lookup by email: the recovered wallet is
\* saved; a failed lookup is thrown.
LookupResponse(i) ==
    /\ setup[i].pc = "lookup"
    /\ \/ /\ setup' = [setup EXCEPT ![i] = [@ EXCEPT !.pc = "done", !.error = "Wallet lookup failed"]]
          /\ UNCHANGED walletFile
       \/ LET w == WalletOf(proxyWallets.byEmail) IN
          /\ walletFile' = SaveWallet(walletFile, w.address, w.walletId, setup[i].email)
          /\ setup' = [setup EXCEPT ![i] = [@ EXCEPT !.pc = "done", !.isNew = TRUE, !.wrote = TRUE,
                                                       !.address = w.address]]
    /\ UNCHANGED proxyWallets
    /\ SetupStep

\* A variant of the status line that applies getSession's renewal buffer.
StatusLineWithBuffer(file, t) ==
    IF ~file.exists THEN "no session"
    ELSE IF file.corrupt THEN "corrupt"
    ELSE IF file.data.expiresAt - t > BufferMs THEN "active"
    ELSE "expired"

\* status.ts:47-62  the session line runStatus displays.
StatusLine(file, t) ==
    IF ~file.exists THEN "no session"
    ELSE IF file.corrupt THEN "corrupt"
    ELSE IF file.data.expiresAt - t > 0 THEN "active"
    ELSE "expired"

\* A variant of the status command that removes a session file it cannot
\* parse.
RunStatusRepairs ==
    /\ \E b \in BalanceReads :
          report' = [runs |-> 1, wallet |-> walletFile.exists,
                     balance |-> IF ~walletFile.exists THEN "none" ELSE IF b = "error" THEN "?.??" ELSE b,
                     session |-> IF walletFile.exists THEN StatusLine(sessionFile, now) ELSE "none"]
    /\ sessionFile' = IF sessionFile.corrupt THEN AbsentFile ELSE sessionFile
    /\ UNCHANGED <<now, walletFile, fetchWithPayment, currentMaxCost, keysGenerated, sessionsIssued,
                   uuidsIssued, poll, setup, proxyWallets, call>>

\* status.ts:22-81  runStatus: loadWallet(), the balance read, the session
\* line; with no wallet it stops after the warning.
RunStatus ==
    /\ \E b \in BalanceReads :
          report' = [runs |-> 1, wallet |-> walletFile.exists,
                     balance |-> IF ~walletFile.exists THEN "none" ELSE IF b = "error" THEN "?.??" ELSE b,
                     session |-> IF walletFile.exists THEN StatusLine(sessionFile, now) ELSE "none"]
    /\ UNCHANGED <<now, walletFile, sessionFile, fetchWithPayment, currentMaxCost, keysGenerated, sessionsIssued,
                   uuidsIssued, poll, setup, proxyWallets, call>>

\* getSession on its own: one signTypedData stands before its getSession call,
\* with the session file in any condition an earlier process may have left it
\* in, for this wallet or for another one.
OtherAddress == "0xother"
SessionFiles ==
    {AbsentFile, CorruptFile} \cup
    {FileOf(SessionData(1, a, KeyPair(1), e, 0)) :
        a \in {ToLowerCase(WalletAddress), OtherAddress},
        e \in {0, TickMs, TickMs + 1, 2 * TickMs, 2 * TickMs + 1, 3 * TickMs}}

SessionInit ==
    /\ now \in {0, TickMs}
    /\ walletFile \in {WalletData(WalletAddress, WalletId, "none"), NoWalletFile}
    /\ sessionFile \in SessionFiles
    /\ fetchWithPayment = walletFile.exists
    /\ currentMaxCost = NoCap
    /\ keysGenerated = 1
    /\ sessionsIssued = 1
    /\ uuidsIssued = 0
    /\ CommandsInit
    /\ call = [c \in Calls |->
                  IF c = 1 /\ walletFile.exists
                  THEN [IdleCall EXCEPT !.pc = "session", !.kind = "discovery", !.first = 402,
                                        !.scheme = "exact", !.amount = 10000, !.hasAmount = TRUE,
                                        !.guard = "pass", !.nSend = 1]
                  ELSE IdleCall]

\* The guard hook on its own: one invocation stands at the hook, with a cap
\* and a requirement drawn from wider sets than a whole run affords.
GuardCaps == {NoCap} \cup {Cap(v) : v \in {100, 10000, 20000, 100000, 1000000}}
GuardAmountFields ==
    {NoAmount} \cup {AmountField(a) : a \in {99, 100, 101, 10000, 20000, 20001, 100000, 1000000, 1234567}}

GuardInit ==
    /\ now = 0
    /\ walletFile = WalletData(WalletAddress, WalletId, "none")
    /\ sessionFile = AbsentFile
    /\ fetchWithPayment = TRUE
    /\ keysGenerated = 1
    /\ sessionsIssued = 1
    /\ uuidsIssued = 0
    /\ CommandsInit
    /\ \E cap \in GuardCaps : \E f \in GuardAmountFields :
          /\ currentMaxCost = cap
          /\ call = [c \in Calls |->
                        IF c = 1
                        THEN [IdleCall EXCEPT !.pc = "hook", !.kind = IF cap.set THEN "call" ELSE "discovery",
                                              !.cap = cap, !.first = 402, !.scheme = "exact", !.nSend = 1,
                                              !.amount = f.value, !.hasAmount = f.numeric]
                        ELSE IdleCall]

\* Time passes.
Tick ==
    /\ now < MaxTicks * TickMs
    /\ now' = now + TickMs
    /\ UNCHANGED <<walletFile, sessionFile, fetchWithPayment, currentMaxCost, keysGenerated, sessionsIssued,
                   uuidsIssued, call,
                   report, poll, setup, proxyWallets>>

\* A variant of the start that builds the payment client on every call.
X402FetchStartRebuilds(c, kind, cap) ==
    /\ call[c].pc = "idle"
    \* (the invocations are numbered in the order they start)
    /\ \A d \in Calls : d < c => call[d].pc # "idle"
    \* (client.ts:28-31  the cached client, or else loadWallet() finds the wallet)
    /\ fetchWithPayment \/ walletFile.exists
    /\ fetchWithPayment' = TRUE
    /\ currentMaxCost' = cap
    /\ call' = [call EXCEPT ![c].pc = "first", ![c].kind = kind, ![c].cap = cap, ![c].nSend = 1,
                            ![c].built = TRUE]
    /\ UNCHANGED <<now, walletFile, sessionFile, keysGenerated, sessionsIssued, uuidsIssued,
                   report, poll, setup, proxyWallets>>

\* client.ts:67-75  x402Fetch up to its first await: getFetchWithPayment()
\* (27-57), _currentMaxCost = opts?.maxCostUsd, and payFetch sends the request.
X402FetchStart(c, kind, cap) ==
    /\ call[c].pc = "idle"
    \* (the invocations are numbered in the order they start)
    /\ \A d \in Calls : d < c => call[d].pc # "idle"
    \* (client.ts:28-31  the cached client, or else loadWallet() finds the wallet)
    /\ fetchWithPayment \/ walletFile.exists
    /\ fetchWithPayment' = TRUE
    /\ currentMaxCost' = cap
    /\ call' = [call EXCEPT ![c].pc = "first", ![c].kind = kind, ![c].cap = cap, ![c].nSend = 1,
                            ![c].built = ~fetchWithPayment]
    /\ UNCHANGED <<now, walletFile, sessionFile, keysGenerated, sessionsIssued, uuidsIssued,
                   report, poll, setup, proxyWallets>>

\* server entry, signal402_call handler: x402Fetch(url, reqInit, { maxCostUsd: max_cost }),
\* loadWallet() having found the wallet.
Signal402Call(c) ==
    \E mc \in MaxCostInputs :
        /\ MaxCostAccepted(mc)
        /\ walletFile.exists
        /\ X402FetchStart(c, "call", Cap(MaxCostOf(mc)))

\* The frame of an invocation that ends where it starts, touching only its
\* own record.
RefusedStep ==
    UNCHANGED <<now, walletFile, sessionFile, fetchWithPayment, currentMaxCost, keysGenerated, sessionsIssued,
                uuidsIssued, report, poll, setup, proxyWallets>>

\* server entry, signal402_call handler: loadWallet() finds no wallet and the
\* handler answers with an error, without calling x402Fetch.
Signal402CallNoWallet(c) ==
    /\ call[c].pc = "idle"
    /\ \A d \in Calls : d < c => call[d].pc # "idle"
    /\ ~walletFile.exists
    /\ call' = [call EXCEPT ![c].pc = "done", ![c].kind = "call", ![c].outcome = "error",
                            ![c].error = "No wallet configured. Run signal402_setup first.",
                            ![c].tool = ToolResult(TRUE, "No wallet configured. Run signal402_setup first.")]
    /\ RefusedStep

\* client.ts:27-31, 72  x402Fetch of a discovery call: getFetchWithPayment()
\* has no cached client and loadWallet() finds no wallet: it throws, before
\* the cap is set and outside the try/finally.
X402FetchNoWallet(c) ==
    /\ call[c].pc = "idle"
    /\ \A d \in Calls : d < c => call[d].pc # "idle"
    /\ ~fetchWithPayment
    /\ ~walletFile.exists
    /\ call' = [call EXCEPT ![c].pc = "done", ![c].kind = "discovery", ![c].outcome = "error",
                            ![c].error = "No wallet configured. Run signal402_setup first.",
                            ![c].tool = ToolThrown("No wallet configured. Run signal402_setup first.")]
    /\ RefusedStep

\* client.ts:83-139  fetchCatalog / fetchAssess / fetchRecommend / fetchProbe:
\* x402Fetch(url, init) with no opts.
DiscoveryCall(c) == X402FetchStart(c, "discovery", NoCap)

\* Which of `url` and `name` an assess or probe request carries.
ToolArgs == [url : BOOLEAN, name : BOOLEAN]

\* A variant of the test that holds when both are given.
BothGiven(args) == args.url /\ args.name

\* server entry lines 91 and 129, client.ts:125-133  `!url && !name`: neither
\* argument is given.
NeitherGiven(args) == ~args.url /\ ~args.name

\* server entry, signal402_assess handler (90-97): with neither url nor name
\* it returns a prompt; otherwise fetchAssess calls x402Fetch.
Signal402Assess(c) ==
    IF NeitherGiven(call[c].args)
    THEN /\ call[c].pc = "idle"
         /\ \A d \in Calls : d < c => call[d].pc # "idle"
         /\ call' = [call EXCEPT ![c].pc = "done", ![c].kind = "assess",
                                 ![c].tool = ToolResult(FALSE, "Please provide either a url or name to assess.")]
         /\ RefusedStep
    ELSE DiscoveryCall(c) \/ X402FetchNoWallet(c)

\* server entry, signal402_probe handler (128-135): with neither name nor url
\* it returns a prompt; otherwise fetchProbe calls x402Fetch.
Signal402Probe(c) ==
    IF NeitherGiven(call[c].args)
    THEN /\ call[c].pc = "idle"
         /\ \A d \in Calls : d < c => call[d].pc # "idle"
         /\ call' = [call EXCEPT ![c].pc = "done", ![c].kind = "probe",
                                 ![c].tool = ToolResult(FALSE, "Provide either a name or url to probe.")]
         /\ RefusedStep
    ELSE DiscoveryCall(c) \/ X402FetchNoWallet(c)

\* client.ts:121-139  fetchProbe called directly: with neither url nor name it
\* throws before x402Fetch; otherwise it calls x402Fetch(target).
FetchProbe(c) ==
    IF NeitherGiven(call[c].args)
    THEN /\ call[c].pc = "idle"
         /\ \A d \in Calls : d < c => call[d].pc # "idle"
         /\ call' = [call EXCEPT ![c].pc = "done", ![c].kind = "fetchProbe", ![c].outcome = "error",
                                 ![c].error = "Provide either name or url"]
         /\ RefusedStep
    ELSE DiscoveryCall(c) \/ X402FetchNoWallet(c)

\* The rest of the frame of a continuation of invocation c that touches only
\* its own record and the shared cap.
OwnStep == UNCHANGED <<now, walletFile, sessionFile, fetchWithPayment, keysGenerated, sessionsIssued, uuidsIssued,
                   report, poll, setup, proxyWallets>>

\* wrapFetchWithPayment: the reply to the first send.  A status other than 402
\* is returned as it is; a transport failure is thrown; a 402 is parsed and its
\* selected requirement kept for the hooks.
FirstResponse(c) ==
    /\ call[c].pc = "first"
    /\ \/ /\ Finish(c, [call[c] EXCEPT !.failed = "first"], Thrown("fetch failed"))
          /\ OwnStep
       \/ \E st \in Statuses \ {402} :
             /\ Finish(c, [call[c] EXCEPT !.first = st, !.failed = IF Ok(st) THEN "none" ELSE "first"],
                       Response(st))
             /\ OwnStep
       \/ \E sch \in OfferedSchemes :
             IF sch \in RegisteredSchemes
             THEN \E f \in AmountFields :
                     /\ call' = [call EXCEPT ![c].pc = "hook", ![c].first = 402, ![c].scheme = sch,
                                             ![c].amount = f.value, ![c].hasAmount = f.numeric]
                     /\ UNCHANGED currentMaxCost
                     /\ OwnStep
             ELSE /\ Finish(c, [call[c] EXCEPT !.first = 402, !.scheme = sch],
                            Thrown("No supported payment scheme"))
                  /\ OwnStep

\* client.ts:41-53  x402Client.createPaymentPayload runs the
\* onBeforePaymentCreation hook: it reads _currentMaxCost as it is now, and an
\* abort is thrown ("Payment creation aborted").
GuardHook(c) ==
    /\ call[c].pc = "hook"
    /\ LET seen == call[c]
           field == [numeric |-> seen.hasAmount, value |-> seen.amount] IN
       IF GuardAborts(currentMaxCost, field)
       THEN Finish(c, [seen EXCEPT !.guard = "abort"], Thrown(AbortReason(currentMaxCost, field)))
       ELSE /\ call' = [call EXCEPT ![c] = [seen EXCEPT !.guard = "pass", !.pc = "session"]]
            /\ UNCHANGED currentMaxCost
    /\ OwnStep

\* A variant of the signer that sends the sign-raw request a second time.
SendPaymentSignRawTwice(rec, session) ==
    [rec EXCEPT !.pc = "paySign", !.session = session, !.nPaySign = rec.nPaySign + 2,
                !.authSession = session.sessionId,
                !.payRequest = SignRawRequest("POST", "/api/v1/wallets/w1/sign-raw", SignBody(rec)),
                !.authMsg = CanonicalMessage("POST", "/api/v1/wallets/w1/sign-raw", SignBody(rec),
                                             RandomUUID(uuidsIssued)),
                !.payHeaders = SignRequest(session,
                                   CanonicalMessage("POST", "/api/v1/wallets/w1/sign-raw", SignBody(rec),
                                                    RandomUUID(uuidsIssued))),
                !.log = rec.log \o <<"pay-sign-raw", "pay-sign-raw">>]

\* session.ts:198-237 and account.ts:45-54  signRequest(session, ...) and the
\* sign-raw request for the payment authorization, sent with its headers.
SendPaymentSignRaw(rec, session) ==
    [rec EXCEPT !.pc = "paySign", !.session = session, !.nPaySign = rec.nPaySign + 1,
                !.authSession = session.sessionId,
                !.payRequest = SignRawRequest("POST", "/api/v1/wallets/w1/sign-raw", SignBody(rec)),
                !.authMsg = CanonicalMessage("POST", "/api/v1/wallets/w1/sign-raw", SignBody(rec),
                                             RandomUUID(uuidsIssued)),
                !.payHeaders = SignRequest(session,
                                   CanonicalMessage("POST", "/api/v1/wallets/w1/sign-raw", SignBody(rec),
                                                    RandomUUID(uuidsIssued))),
                !.log = Append(rec.log, "pay-sign-raw")]

\* account.ts:43-44 and session.ts:245-262  signTypedData calls getSession: a
\* persisted record that is still valid is returned; otherwise establishSession
\* starts with the nonce fetch (session.ts:111).
GetSession(c) ==
    /\ call[c].pc = "session"
    /\ LET seen == call[c] IN
       IF sessionFile.exists /\ sessionFile.corrupt
       THEN \* (session.ts:251  JSON.parse throws; nothing catches it before x402Fetch's caller)
            /\ Finish(c, [seen EXCEPT !.parseFailed = TRUE], Thrown("SyntaxError: Unexpected token in JSON"))
            /\ UNCHANGED uuidsIssued
       ELSE IF sessionFile.exists /\ SessionValid(sessionFile.data, now)
       THEN /\ call' = [call EXCEPT ![c] =
                           SendPaymentSignRaw([seen EXCEPT !.gsPath = "loaded"], sessionFile.data)]
            /\ uuidsIssued' = uuidsIssued + 1
            /\ UNCHANGED currentMaxCost
       ELSE /\ call' = [d \in Calls |->
                           IF d = c
                           THEN [seen EXCEPT !.pc = "nonce", !.log = Append(seen.log, "nonce"),
                                             !.overlap = \E e \in Calls \ {c} : call[e].pc \in EstablishPcs]
                           ELSE IF call[d].pc \in EstablishPcs
                                THEN [call[d] EXCEPT !.overlap = TRUE]
                                ELSE call[d]]
            /\ UNCHANGED <<uuidsIssued, currentMaxCost>>
    /\ UNCHANGED <<now, walletFile, sessionFile, fetchWithPayment, keysGenerated, sessionsIssued,
                   report, poll, setup, proxyWallets>>

\* A variant of the nonce step that fetches the nonce again when the fetch
\* failed.
NonceResponseRetries(c) ==
    /\ call[c].pc = "nonce"
    /\ \E reply \in Replies :
          IF reply = "ok"
          THEN LET pair == GenerateSessionKeypair(keysGenerated) IN
               /\ keysGenerated' = keysGenerated + 1
               /\ call' = [call EXCEPT ![c].pc = "bootSign", ![c].pendingKey = pair.privateKey,
                                       ![c].pubKey = pair.publicKey, ![c].siweKey = pair.publicKey,
                                       ![c].bootHeaders = BootstrapHeaders(WalletAddress),
                                       ![c].nKeygen = call[c].nKeygen + 1,
                                       ![c].log = Append(call[c].log, "boot-sign-raw")]
          ELSE /\ call' = [call EXCEPT ![c].log = Append(call[c].log, "nonce")]
               /\ UNCHANGED keysGenerated
    /\ UNCHANGED <<now, walletFile, sessionFile, fetchWithPayment, sessionsIssued, uuidsIssued, currentMaxCost,
                   report, poll, setup, proxyWallets>>

\* session.ts:111-135  the nonce arrives: generate the keypair, build and hash
\* the SIWE message, send the bootstrap sign-raw.
NonceResponse(c) ==
    /\ call[c].pc = "nonce"
    /\ \E reply \in Replies :
          IF reply = "ok"
          THEN LET pair == GenerateSessionKeypair(keysGenerated) IN
               /\ keysGenerated' = keysGenerated + 1
               /\ call' = [call EXCEPT ![c].pc = "bootSign", ![c].pendingKey = pair.privateKey,
                                       ![c].pubKey = pair.publicKey, ![c].siweKey = pair.publicKey,
                                       ![c].bootHeaders = BootstrapHeaders(WalletAddress),
                                       ![c].nKeygen = call[c].nKeygen + 1,
                                       ![c].log = Append(call[c].log, "boot-sign-raw")]
               /\ UNCHANGED currentMaxCost
          ELSE /\ Finish(c, [call[c] EXCEPT !.failed = "nonce"], Thrown("Failed to get nonce"))
               /\ UNCHANGED keysGenerated
    /\ UNCHANGED <<now, walletFile, sessionFile, fetchWithPayment, sessionsIssued, uuidsIssued,
                   report, poll, setup, proxyWallets>>

\* session.ts:137-155  the delegation signature arrives: create the session.
BootSignResponse(c) ==
    /\ call[c].pc = "bootSign"
    /\ \E reply \in SignReplies :
          IF reply = "ok"
          THEN /\ call' = [call EXCEPT ![c].pc = "create", ![c].submittedKey = call[c].pubKey,
                                       ![c].log = Append(call[c].log, "create-session")]
               /\ UNCHANGED currentMaxCost
          ELSE Finish(c, [call[c] EXCEPT !.failed = "boot-sign-raw"], Thrown("sign-raw failed"))
    /\ OwnStep

\* A variant of the session-creation step that writes the record before it
\* looks at the reply's status.
CreateResponseWritesFirst(c) ==
    /\ call[c].pc = "create"
    /\ \/ /\ Finish(c, [call[c] EXCEPT !.failed = "create-session"], Thrown("Session creation failed"))
          /\ sessionFile' = FileOf(SessionData(0, ToLowerCase(WalletAddress),
                                               [privateKey |-> call[c].pendingKey, publicKey |-> call[c].pubKey], 0, now))
          /\ UNCHANGED <<sessionsIssued, uuidsIssued>>
       \/ \E life \in Lifetimes :
             LET session == SessionData(sessionsIssued + 1, ToLowerCase(WalletAddress),
                                        [privateKey |-> call[c].pendingKey, publicKey |-> call[c].pubKey],
                                        now + life * TickMs, now) IN
             /\ sessionsIssued' = sessionsIssued + 1
             /\ uuidsIssued' = uuidsIssued + 1
             /\ sessionFile' = FileOf(session)
             /\ call' = [call EXCEPT ![c] =
                            SendPaymentSignRaw([call[c] EXCEPT !.gsPath = "established",
                                                               !.wrote = TRUE], session)]
             /\ UNCHANGED currentMaxCost
    /\ UNCHANGED <<now, walletFile, fetchWithPayment, keysGenerated,
                   report, poll, setup, proxyWallets>>

\* A variant of the session-creation step that, when a record is already
\* persisted, renews it by overwriting its sessionId and expiresAt only.
CreateResponsePatchesFields(c) ==
    /\ call[c].pc = "create"
    /\ \/ /\ Finish(c, [call[c] EXCEPT !.failed = "create-session"], Thrown("Session creation failed"))
          /\ UNCHANGED <<sessionFile, sessionsIssued, uuidsIssued>>
       \/ \E life \in Lifetimes :
             LET session == SessionData(sessionsIssued + 1, ToLowerCase(WalletAddress),
                                        [privateKey |-> call[c].pendingKey, publicKey |-> call[c].pubKey],
                                        now + life * TickMs, now) IN
             /\ sessionsIssued' = sessionsIssued + 1
             /\ uuidsIssued' = uuidsIssued + 1
             /\ sessionFile' = IF sessionFile.exists
                               THEN FileOf([sessionFile.data EXCEPT !.sessionId = session.sessionId,
                                                                    !.expiresAt = session.expiresAt])
                               ELSE FileOf(session)
             /\ call' = [call EXCEPT ![c] =
                            SendPaymentSignRaw([call[c] EXCEPT !.gsPath = "established",
                                                               !.wrote = TRUE], session)]
             /\ UNCHANGED currentMaxCost
    /\ UNCHANGED <<now, walletFile, fetchWithPayment, keysGenerated,
                   report, poll, setup, proxyWallets>>

\* session.ts:157-180  the proxy's { sessionId, expiresAt } arrives: the record
\* is built and written, establishSession and getSession return it, and
\* signTypedData goes on to the payment sign-raw.
CreateResponse(c) ==
    /\ call[c].pc = "create"
    /\ \/ /\ Finish(c, [call[c] EXCEPT !.failed = "create-session"], Thrown("Session creation failed"))
          /\ UNCHANGED <<sessionFile, sessionsIssued, uuidsIssued>>
       \/ \E life \in Lifetimes :
             LET session == SessionData(sessionsIssued + 1, ToLowerCase(WalletAddress),
                                        [privateKey |-> call[c].pendingKey, publicKey |-> call[c].pubKey],
                                        now + life * TickMs, now) IN
             /\ sessionsIssued' = sessionsIssued + 1
             /\ uuidsIssued' = uuidsIssued + 1
             /\ sessionFile' = FileOf(session)
             /\ call' = [call EXCEPT ![c] =
                            SendPaymentSignRaw([call[c] EXCEPT !.gsPath = "established",
                                                               !.wrote = TRUE], session)]
             /\ UNCHANGED currentMaxCost
    /\ UNCHANGED <<now, walletFile, fetchWithPayment, keysGenerated,
                   report, poll, setup, proxyWallets>>

\* sig.startsWith('0x')
StartsWith0x(sig) == Len(sig) >= 2 /\ sig[1] = "0" /\ sig[2] = "x"

\* A variant of the normalisation that prefixes every value.
PrefixAlways(sig) == <<"0", "x">> \o sig

\* account.ts:65  sig.startsWith('0x') ? sig : `0x${sig}`
Normalize0x(sig) == IF StartsWith0x(sig) THEN sig ELSE <<"0", "x">> \o sig

\* What signTypedData hands the SDK: a signature, or an error thrown.
Signature(value) == [ok |-> TRUE, value |-> value, error |-> "none"]
SignFailed(msg) == [ok |-> FALSE, value |-> <<>>, error |-> msg]

\* account.ts:49-66  signTypedData after its sign-raw request: a failed fetch
\* and a status that is not ok are thrown; the signature is the body's
\* `signature`, else its `result`; without either an error is thrown;
\* otherwise the value is returned with its 0x prefix.
SignTypedDataResult(reply) ==
    IF reply.status = 0 THEN SignFailed("fetch failed")
    ELSE IF ~Ok(reply.status) THEN SignFailed("sign-raw failed: " \o ToString(reply.status))
    ELSE LET sig == IF reply.signature # <<>> THEN reply.signature ELSE reply.result IN
         IF sig = <<>>
         THEN SignFailed("No signature in sign-raw response")
         ELSE Signature(Normalize0x(sig))

\* account.ts:56-66 and wrapFetchWithPayment: the reply to the payment's
\* sign-raw arrives; with a signature the payload is encoded into the payment
\* header and the request is sent again, and an error ends the call.
SignRawResponse(c, replies) ==
    /\ call[c].pc = "paySign"
    /\ \E reply \in replies :
          LET r == SignTypedDataResult(reply)
              seen == [call[c] EXCEPT !.payReplied = TRUE, !.payReply = reply, !.paySig = r.value] IN
          IF r.ok
          THEN /\ call' = [call EXCEPT ![c] = [seen EXCEPT !.pc = "second", !.paymentHeader = TRUE,
                                                            !.nSend = call[c].nSend + 1]]
               /\ UNCHANGED currentMaxCost
          ELSE Finish(c, [seen EXCEPT !.failed = "pay-sign-raw"], Thrown(r.error))
    /\ OwnStep

\* The step above, over the replies a whole run is followed with.
PaySignResponse(c) == SignRawResponse(c, PaySignReplies)

\* The step above, over every reply.
AnySignRawResponse(c) == SignRawResponse(c, SignRawReplies)

\* wrapFetchWithPayment: the reply to the resend is returned whatever it is.
SecondResponse(c) ==
    /\ call[c].pc = "second"
    /\ \/ Finish(c, [call[c] EXCEPT !.failed = "second"], Thrown("fetch failed"))
       \/ \E st \in Statuses :
             Finish(c, [call[c] EXCEPT !.second = st, !.failed = IF Ok(st) THEN "none" ELSE "second"],
                    Response(st))
    /\ OwnStep

\* ------------------------------------------------------------------ claims

\* The requirement's cost exceeds a cap: amount / 1e6 USD against the cap, the
\* cap being held in millionths of a USD.
CostExceeds(amount, cap) == cap.set /\ amount > cap.usd
EstablishLog == <<"nonce", "boot-sign-raw", "create-session">>

\* C1: no sign-raw request for a payment authorization is issued for a
\* requirement whose cost exceeds the maxCostUsd given to the x402Fetch call
\* that triggered the payment, also with several calls in flight.
C1_NoSignAboveOwnCap ==
    \A c \in Calls : call[c].nPaySign > 0 => ~CostExceeds(call[c].amount, call[c].cap)

\* C2: when the guard evaluates a call's requirement, the cap it compares
\* against is the maxCostUsd of that same call (none if the call gave none).
C2_GuardReadsOwnCap ==
    [][\A c \in Calls :
          call[c].pc = "hook" /\ call'[c].pc # "hook" => currentMaxCost = call[c].cap]_vars

\* C3: a call whose payment the guard aborted fails with an error, and in
\* that call no sign-raw, no nonce fetch and no session creation was sent, the
\* request was not resent and the call did not write the session file.
C3_AbortIsClean ==
    \A c \in Calls :
        call[c].guard = "abort" =>
            /\ call[c].pc = "done"
            /\ call[c].outcome = "error"
            /\ call[c].nPaySign = 0
            /\ call[c].nKeygen = 0
            /\ call[c].log = <<>>
            /\ call[c].nSend = 1
            /\ ~call[c].wrote
            /\ call[c].gsPath = "none"

\* C3 happens: a call was aborted by the guard while the other call went on
\* to establish a session.
C3_Witness ==
    \E c \in Calls : \E d \in Calls \ {c} :
        /\ call[c].guard = "abort"
        /\ call[c].pc = "done"
        /\ call[d].wrote

\* C4: a call whose first reply has a status other than 402 returns that
\* reply, has sent the request once, and has made no call to the signer, to
\* getSession / establishSession or to the custody gateway, nor written the
\* session file.
C4_PassThrough ==
    \A c \in Calls :
        call[c].first \notin {0, 402} =>
            /\ call[c].pc = "done"
            /\ call[c].outcome = "response"
            /\ call[c].result = call[c].first
            /\ call[c].nSend = 1
            /\ call[c].nPaySign = 0
            /\ call[c].nKeygen = 0
            /\ call[c].log = <<>>
            /\ call[c].gsPath = "none"
            /\ call[c].guard = "none"
            /\ ~call[c].wrote

\* C4 happens: an error status was passed through.
C4_Witness ==
    \E c \in Calls : call[c].pc = "done" /\ call[c].first = 500 /\ call[c].result = 500

\* C5: after a 402 whose guard check passed, the request is resent once, with
\* the payment header, after one payment sign-raw; the reply to the resend is
\* what the call returns, whatever its status.
C5_ResendOnce ==
    \A c \in Calls :
        /\ call[c].nSend <= 2
        /\ call[c].nPaySign <= 1
        /\ call[c].nSend = 2 <=> call[c].paymentHeader
        /\ call[c].paymentHeader => call[c].guard = "pass" /\ call[c].nPaySign = 1
        /\ call[c].second # 0 =>
              /\ call[c].pc = "done"
              /\ call[c].paymentHeader
              /\ call[c].outcome = "response"
              /\ call[c].result = call[c].second

\* C5 happens: the resend was answered 402 again and that reply was returned.
C5_Witness ==
    \E c \in Calls :
        call[c].pc = "done" /\ call[c].paymentHeader /\ call[c].second = 402 /\ call[c].result = 402

\* C6: a getSession call that finds a persisted record with
\* expiresAt > now + 5 minutes returns exactly that record, sends nothing,
\* generates no keypair and leaves the file as it is (the only request logged
\* is signTypedData's own payment sign-raw, made after getSession returned);
\* two calls that reuse the record while nobody renews it hold the identical
\* session.
C6_SessionReuse ==
    /\ [][\A c \in Calls :
             (/\ call[c].pc = "session"
              /\ call'[c].pc # "session"
              /\ sessionFile.exists
              /\ sessionFile.data.expiresAt > now + 5 * 60 * 1000)
             => /\ call'[c].gsPath = "loaded"
                /\ call'[c].session = sessionFile.data
                /\ sessionFile' = sessionFile
                /\ keysGenerated' = keysGenerated
                /\ sessionsIssued' = sessionsIssued
                /\ call'[c].nKeygen = 0
                /\ call'[c].log = <<"pay-sign-raw">>
                /\ ~call'[c].wrote]_vars
    /\ [](\A c, d \in Calls :
             (/\ call[c].gsPath = "loaded"
              /\ call[d].gsPath = "loaded"
              /\ \A e \in Calls : ~call[e].wrote)
             => call[c].session = call[d].session)

\* C6 happens: two calls have reused the persisted record.
C6_Witness ==
    \A c \in Calls :
        /\ call[c].gsPath = "loaded"
        /\ call[c].session = sessionFile.data
        /\ call[c].session.sessionId = 1

\* C7: a getSession call that finds no persisted record, or one with
\* expiresAt <= now + 5 minutes, starts an establishment (the nonce fetch) and
\* does not return yet; a getSession that returned through establishment ran
\* one sequence: nonce fetch, delegation sign-raw, session creation, in that
\* order, with one keypair, and the record it returned is the one built from
\* that sequence, which it has written.
C7_ForcedRenewal ==
    /\ [][\A c \in Calls :
             (/\ call[c].pc = "session"
              /\ call'[c].pc # "session"
              /\ (~sessionFile.exists \/ sessionFile.data.expiresAt <= now + 5 * 60 * 1000))
             => /\ call'[c].pc = "nonce"
                /\ call'[c].gsPath = "none"
                /\ call'[c].log = <<"nonce">>
                /\ call'[c].nPaySign = 0]_vars
    /\ [](\A c \in Calls :
             /\ call[c].gsPath = "established" =>
                   /\ SubSeq(call[c].log, 1, 3) = EstablishLog
                   /\ \A i \in 4..Len(call[c].log) : call[c].log[i] = "pay-sign-raw"
                   /\ call[c].nKeygen = 1
                   /\ call[c].wrote
                   /\ call[c].session.sessionPrivateKey = call[c].pendingKey
                   /\ call[c].session.sessionId > 1
             /\ call[c].gsPath = "none" /\ call[c].pc \in EstablishPcs =>
                   /\ call[c].log = SubSeq(EstablishLog, 1, Len(call[c].log))
                   /\ call[c].nPaySign = 0)

\* C7 happens: one call reused the persisted record while it was valid, and
\* a later call found it expired and returned a newly established one.
C7_Witness ==
    \E c \in Calls : \E d \in Calls \ {c} :
        /\ call[d].gsPath = "loaded"
        /\ call[d].session.sessionId = 1
        /\ call[c].gsPath = "established"
        /\ call[c].session.sessionId = 2
        /\ call[c].session.sessionPrivateKey = 2

\* C8: every record getSession returns, loaded or newly established, has
\* expiresAt > now + 5 minutes at the moment it is returned.
C8_ReturnedSessionIsFresh ==
    [][\A c \in Calls :
          call[c].gsPath = "none" /\ call'[c].gsPath # "none"
          => call'[c].session.expiresAt > now + 5 * 60 * 1000]_vars

\* C9: when two getSession calls overlapped while the persisted session was
\* missing or expired and both have returned, either only one of them ran an
\* establishment, or each holds the record that is persisted.
C9_OverlapConverges ==
    \A c \in Calls : \A d \in Calls \ {c} :
        (/\ call[c].overlap /\ call[d].overlap
         /\ call[c].gsPath # "none" /\ call[d].gsPath # "none")
        => \/ Cardinality({e \in {c, d} : call[e].gsPath = "established"}) <= 1
           \/ /\ call[c].session = sessionFile.data
              /\ call[d].session = sessionFile.data

\* C10: a signal402_call invocation passes a positive cap to x402Fetch (its
\* max_cost, or 0.10 USD when left out), and no payment costing more than
\* that cap is signed on its behalf.
C10_CallCapHolds ==
    \A c \in Calls :
        call[c].kind = "call" =>
            /\ call[c].cap.set
            /\ call[c].cap.usd > 0
            /\ call[c].nPaySign > 0 => call[c].amount <= call[c].cap.usd

\* C11: no payment authorization for more than $0.03 is signed on behalf of
\* a discovery call (fetchCatalog, fetchRecommend, fetchAssess, fetchProbe),
\* whatever amount the 402 reply demands.
C11_DiscoveryCostBounded ==
    \A c \in Calls :
        call[c].kind = "discovery" /\ call[c].nPaySign > 0 => call[c].amount <= DiscoveryMaxCost

\* C12: a call whose 402 reply's selected requirement has no numeric
\* maxAmountRequired makes no signing call, and if the call set a cap the
\* requirement does not pass the spending guard.
C12_NoAmountFailsFast ==
    \A c \in Calls :
        call[c].first = 402 /\ ~call[c].hasAmount =>
            /\ call[c].nPaySign = 0
            /\ call[c].cap.set => call[c].guard # "pass"

\* C13: the cost of a requirement is maxAmountRequired / 10^6 USD, and a
\* guard abort reports that cost with four decimals, together with the cap:
\* with cap $0.0001 and amount 1000000 the call is aborted and the cost
\* reported is "$1.0000".
C13_AbortReportsCost ==
    \A c \in Calls :
        /\ (call[c].guard # "none" /\ call[c].cap = Cap(100) /\ call[c].hasAmount /\ call[c].amount = 1000000)
              => /\ call[c].guard = "abort"
                 /\ call[c].outcome = "error"
                 /\ call[c].error = "Service costs $1.0000 per request, exceeds max_cost of $0.0001. Increase max_cost or choose a cheaper service."
        /\ call[c].guard = "abort" =>
              /\ call[c].amount > call[c].cap.usd
              /\ \E cost \in {"0.0001", "0.0100", "0.0200", "0.1000", "1.0000", "1.2346"} :
                 \E cap \in {"0.0001", "0.01", "0.02", "0.1", "1"} :
                    /\ call[c].error = "Service costs $" \o cost \o " per request, exceeds max_cost of $"
                                          \o cap \o ". Increase max_cost or choose a cheaper service."
                    /\ cost = CASE call[c].amount \in {101} -> "0.0001"
                                [] call[c].amount = 10000 -> "0.0100"
                                [] call[c].amount \in {20000, 20001} -> "0.0200"
                                [] call[c].amount = 100000 -> "0.1000"
                                [] call[c].amount = 1000000 -> "1.0000"
                                [] call[c].amount = 1234567 -> "1.2346"
                                [] OTHER -> "none"
                    /\ cap = CASE call[c].cap.usd = 100 -> "0.0001"
                               [] call[c].cap.usd = 10000 -> "0.01"
                               [] call[c].cap.usd = 20000 -> "0.02"
                               [] call[c].cap.usd = 100000 -> "0.1"
                               [] call[c].cap.usd = 1000000 -> "1"
                               [] OTHER -> "none"

\* C13 happens: the guard, with cap $0.0001, has aborted a $1.00 requirement.
C13_Witness ==
    \E c \in Calls :
        /\ call[c].pc = "done"
        /\ call[c].guard = "abort"
        /\ call[c].cap = Cap(100)
        /\ call[c].amount = 1000000

\* C14: the guard aborts a call's payment if and only if the call set a cap
\* and the requirement's cost is above it: a cost equal to the cap or below it
\* passes, and a call that set no cap is never aborted by the guard.
C14_AbortIffAboveCap ==
    \A c \in Calls :
        /\ call[c].guard = "abort" => call[c].cap.set /\ call[c].amount > call[c].cap.usd
        /\ call[c].guard = "pass" => ~(call[c].cap.set /\ call[c].amount > call[c].cap.usd)

\* C15 as stated: a call whose guard passed and that went on to pay has made
\* exactly one round trip to the custody gateway, the payment sign-raw.
C15_OneRoundTrip ==
    \A c \in Calls :
        /\ call[c].log # <<>> => call[c].guard = "pass"
        /\ call[c].paymentHeader => call[c].log = <<"pay-sign-raw">>

\* C15, amended: requests go to the custody gateway only after the guard
\* passed; a call makes at most one payment sign-raw round trip, exactly one
\* if it paid, and that is its only round trip when getSession returned the
\* persisted session; when getSession had to establish one, the nonce fetch,
\* the delegation sign-raw and the session creation come before it.
C15_GatewayRoundTrips ==
    \A c \in Calls :
        /\ call[c].log # <<>> => call[c].guard = "pass"
        /\ call[c].nPaySign <= 1
        /\ Cardinality({i \in 1..Len(call[c].log) : call[c].log[i] = "pay-sign-raw"}) = call[c].nPaySign
        /\ call[c].nPaySign = 1 =>
              \/ call[c].gsPath = "loaded" /\ call[c].log = <<"pay-sign-raw">>
              \/ call[c].gsPath = "established" /\ call[c].log = EstablishLog \o <<"pay-sign-raw">>
        /\ call[c].paymentHeader => call[c].nPaySign = 1

\* C15 happens: one call paid after one round trip, the other after four.
C15_Witness ==
    \E c \in Calls : \E d \in Calls \ {c} :
        /\ call[c].paymentHeader /\ call[c].log = <<"pay-sign-raw">>
        /\ call[d].paymentHeader /\ call[d].log = EstablishLog \o <<"pay-sign-raw">>

\* C16: a transport failure or a non-success reply at any step (first send,
\* nonce fetch, sign-raw, session creation, resend) ends the call and reaches
\* its caller: as a thrown error for a transport failure and for any failure
\* of a gateway request, as the reply with its error status for a non-success
\* reply of the target service.  The failed request was the last one sent: it
\* is not retried.  Apart from the one resend after a 402, no request is sent
\* twice within a call, and a call makes at most one establishment attempt.
C16_FailureSurfacesNoRetry ==
    \A c \in Calls :
        /\ call[c].failed # "none" =>
              /\ call[c].pc = "done"
              /\ \/ call[c].outcome = "error"
                 \/ call[c].outcome = "response" /\ ~Ok(call[c].result) /\ call[c].failed \in {"first", "second"}
        /\ call[c].failed \in GatewayRequests =>
              /\ call[c].log[Len(call[c].log)] = call[c].failed
              /\ call[c].nSend = 1
        /\ call[c].failed = "first" => call[c].nSend = 1 /\ call[c].log = <<>>
        /\ call[c].failed = "second" => call[c].nSend = 2
        /\ \A i, j \in 1..Len(call[c].log) : i # j => call[c].log[i] # call[c].log[j]
        /\ call[c].nSend <= 2
        /\ call[c].nSend = 2 => call[c].first = 402
        /\ call[c].nKeygen <= 1
        /\ call[c].pc = "done" /\ call[c].outcome = "response" /\ Ok(call[c].result) => call[c].failed = "none"

\* C16 happens: one call failed at the session creation, the other at the
\* payment sign-raw after it had established a session.
C16_Witness ==
    \E c \in Calls : \E d \in Calls \ {c} :
        /\ call[c].failed = "create-session" /\ call[c].outcome = "error" /\ call[c].log = EstablishLog
        /\ call[d].failed = "pay-sign-raw" /\ call[d].outcome = "error"
        /\ call[d].log = EstablishLog \o <<"pay-sign-raw">>

\* C17: the session file changes only in the step in which a call's
\* session-creation request has succeeded; a step in which an establishment
\* fails (at the nonce fetch, the sign-raw or the session creation) leaves the
\* file as it is, and a call whose establishment failed has written nothing.
C17_WriteOnlyAfterCreate ==
    /\ [][(sessionFile' # sessionFile =>
               \E c \in Calls :
                   /\ call[c].pc = "create"
                   /\ call'[c].gsPath = "established"
                   /\ call'[c].failed = "none"
                   /\ call'[c].log = EstablishLog \o <<"pay-sign-raw">>
                   /\ sessionFile' = FileOf(call'[c].session))
          /\ (\A d \in Calls :
                 call'[d].failed # call[d].failed => sessionFile' = sessionFile)]_vars
    /\ [](\A c \in Calls :
             call[c].failed \in {"nonce", "boot-sign-raw", "create-session"} =>
                 ~call[c].wrote /\ call[c].gsPath = "none")

\* C17 happens: an establishment failed at the session creation and the
\* expired record of the earlier process is still what the file holds.
C17_Witness ==
    \E c \in Calls :
        /\ call[c].failed = "create-session"
        /\ call[c].log = EstablishLog
        /\ sessionFile.exists
        /\ sessionFile.data.sessionId = 1
        /\ \A d \in Calls : ~call[d].wrote

\* The record an earlier process left in session.json.
EarlierRecords == {SessionData(1, ToLowerCase(WalletAddress), KeyPair(1), e, 0) : e \in EarlierExpiries}

\* C18: in every reachable state, also after overlapping establishments, the
\* persisted record is, whole, the record one establishment built: the one an
\* earlier process left, or the one a call of this run returned from its own
\* establishment, with that run's private key, public key, sessionId and
\* expiresAt.
C18_RecordFromOneRun ==
    sessionFile.exists =>
        \/ sessionFile.data \in EarlierRecords /\ \A c \in Calls : ~call[c].wrote
        \/ \E c \in Calls :
              /\ call[c].gsPath = "established"
              /\ call[c].wrote
              /\ sessionFile.data = call[c].session
              /\ sessionFile.data.sessionPrivateKey = call[c].pendingKey
              /\ sessionFile.data.sessionPublicKey = call[c].submittedKey
              /\ sessionFile.data.sessionId > 1

\* C18 happens: two establishments overlapped, both wrote, and the file
\* holds the record of one of them, which differs from the other's.
C18_Witness ==
    \E c \in Calls : \E d \in Calls \ {c} :
        /\ call[c].overlap /\ call[d].overlap
        /\ call[c].wrote /\ call[d].wrote
        /\ sessionFile.data = call[d].session
        /\ call[c].session.sessionId # call[d].session.sessionId
        /\ call[c].session.sessionPrivateKey # call[d].session.sessionPrivateKey

\* The session records there are: the persisted one and those calls hold.
SessionRecords ==
    (IF sessionFile.exists THEN {sessionFile.data} ELSE {})
        \cup {call[c].session : c \in {d \in Calls : call[d].gsPath # "none"}}

\* C19: an establishment generates its key pair once; no key pair belongs to
\* two sessions: two session records with different sessionIds never carry
\* the same private or public key, whatever the interleaving; and the public
\* key submitted to the session creation is the one embedded in the signed
\* delegation message and the one persisted, next to its own private key.
C19_KeyPairPerSession ==
    /\ \A c \in Calls :
          /\ call[c].nKeygen <= 1
          /\ call[c].pc \in {"bootSign", "create"} => call[c].nKeygen = 1
          /\ call[c].submittedKey # 0 =>
                /\ call[c].submittedKey = call[c].siweKey
                /\ KeyPair(call[c].pendingKey).publicKey = call[c].submittedKey
          /\ call[c].gsPath = "established" =>
                /\ call[c].nKeygen = 1
                /\ call[c].session.sessionPublicKey = call[c].submittedKey
                /\ call[c].session.sessionPrivateKey = call[c].pendingKey
    /\ \A r1, r2 \in SessionRecords :
          r1.sessionId # r2.sessionId =>
              /\ r1.sessionPrivateKey # r2.sessionPrivateKey
              /\ r1.sessionPublicKey # r2.sessionPublicKey

\* C19 happens: two calls established sessions 2 and 3 in overlapping runs,
\* each with its own key pair.
C19_Witness ==
    \E c \in Calls : \E d \in Calls \ {c} :
        /\ call[c].gsPath = "established" /\ call[d].gsPath = "established"
        /\ call[c].overlap /\ call[d].overlap
        /\ call[c].session.sessionId = 2 /\ call[d].session.sessionId = 3
        /\ call[c].session.sessionPublicKey # call[d].session.sessionPublicKey
        /\ sessionFile.data.sessionId = 3

\* C20: no two requests authenticated by signRequest carry the same nonce,
\* in particular not two requests under the same session; each canonical
\* message (tag, method, path, body digest, timestamp, nonce) is signed once
\* and sent once: a call signs a message exactly when it sends the sign-raw
\* request that carries it, at most once, and no other call signs or sends
\* the same message.
C20_NonceNeverReused ==
    /\ \A c \in Calls :
          /\ call[c].nPaySign <= 1
          /\ call[c].nPaySign = 1 <=> call[c].authMsg # NoMessage
          /\ call[c].nPaySign = 1 =>
                /\ call[c].authMsg.tag = "CLARA-REQUEST-SIG-V1"
                /\ call[c].authMsg.nonce \in 1..uuidsIssued
                /\ call[c].authSession = call[c].session.sessionId
    /\ \A c \in Calls : \A d \in Calls \ {c} :
          call[c].nPaySign > 0 /\ call[d].nPaySign > 0 =>
              /\ call[c].authMsg.nonce # call[d].authMsg.nonce
              /\ call[c].authMsg # call[d].authMsg
    /\ uuidsIssued = Cardinality({c \in Calls : call[c].nPaySign > 0})

\* C20 happens: two calls signed requests under the same session, in the
\* same second, for the same body, and their nonces differ.
C20_Witness ==
    \E c \in Calls : \E d \in Calls \ {c} :
        /\ call[c].nPaySign = 1 /\ call[d].nPaySign = 1
        /\ call[c].authSession = call[d].authSession
        /\ call[c].authMsg.timestamp = call[d].authMsg.timestamp
        /\ call[c].authMsg.bodyDigest = call[d].authMsg.bodyDigest
        /\ call[c].authMsg.nonce # call[d].authMsg.nonce

\* C21: the bootstrap sign-raw of an establishment carries the address
\* header and no session header; a payment sign-raw is sent only after
\* getSession has returned, and carries the address, session id, signature,
\* timestamp and nonce headers that signRequest made from the session
\* getSession returned to that call.
C21_SignRawHeaders ==
    \A c \in Calls :
        /\ (\E i \in 1..Len(call[c].log) : call[c].log[i] = "boot-sign-raw") <=> call[c].bootHeaders # NoHeaders
        /\ call[c].bootHeaders # NoHeaders =>
              /\ call[c].bootHeaders.names = {"Content-Type", "X-Clara-Address"}
              /\ call[c].bootHeaders.address = WalletAddress
        /\ call[c].nPaySign > 0 <=> call[c].payHeaders # NoHeaders
        /\ call[c].nPaySign > 0 =>
              /\ call[c].gsPath \in {"loaded", "established"}
              /\ call[c].payHeaders.names =
                    {"Content-Type", "X-Clara-Address", "X-Clara-Session", "X-Clara-Signature",
                     "X-Clara-Timestamp", "X-Clara-Nonce"}
              /\ call[c].payHeaders.address = call[c].session.address
              /\ call[c].payHeaders.session = call[c].session.sessionId
              /\ call[c].payHeaders.signature.by = call[c].session.sessionPrivateKey
              /\ call[c].payHeaders.signature.signed = call[c].authMsg
              /\ call[c].payHeaders.timestamp = call[c].authMsg.timestamp
              /\ call[c].payHeaders.nonce = call[c].authMsg.nonce
              /\ call[c].payHeaders.nonce > 0
        /\ call[c].gsPath = "none" => call[c].nPaySign = 0

\* C21 happens: a call sent the bootstrap sign-raw with the address header
\* alone and then the payment sign-raw under the session it established.
C21_Witness ==
    \E c \in Calls :
        /\ call[c].gsPath = "established"
        /\ call[c].bootHeaders.names = {"Content-Type", "X-Clara-Address"}
        /\ call[c].payHeaders.session = call[c].session.sessionId
        /\ call[c].payHeaders.session = 2
        /\ call[c].payHeaders.nonce = 1

\* C22: a call whose 402 reply offers no scheme the client supports (only
\* the exact scheme is registered) fails with an error; no payment is put
\* before the guard, the signer is not called, no request goes to the custody
\* gateway and the request is not resent.
C22_UnsupportedSchemeFails ==
    \A c \in Calls :
        call[c].scheme \notin {"none", "exact"} =>
            /\ call[c].pc = "done"
            /\ call[c].outcome = "error"
            /\ call[c].guard = "none"
            /\ call[c].gsPath = "none"
            /\ call[c].nPaySign = 0
            /\ call[c].nKeygen = 0
            /\ call[c].log = <<>>
            /\ call[c].nSend = 1
            /\ ~call[c].paymentHeader
            /\ ~call[c].wrote

\* C22 happens: a call failed on a 402 that offered only the "upto" scheme,
\* while the other call paid under the exact scheme.
C22_Witness ==
    \E c \in Calls : \E d \in Calls \ {c} :
        /\ call[c].pc = "done" /\ call[c].first = 402 /\ call[c].scheme = "upto"
        /\ call[c].outcome = "error"
        /\ call[d].scheme = "exact" /\ call[d].paymentHeader

\* C23: a getSession call that finds a session file it cannot parse runs an
\* establishment (it goes on to the nonce fetch) instead of failing.
C23_CorruptFileRecreated ==
    [][\A c \in Calls :
          (/\ call[c].pc = "session"
           /\ call'[c].pc # "session"
           /\ sessionFile.exists
           /\ sessionFile.corrupt)
          => /\ call'[c].pc = "nonce"
             /\ call'[c].outcome = "none"]_vars

\* C24: a status run, whatever the wallet file and the session file are
\* (absent, valid, expired, corrupt), changes neither file, starts no
\* establishment and sends no signing request: the step that displays a
\* report leaves everything but the report as it is.
C24_StatusReadOnly ==
    [][report' # report =>
          /\ walletFile' = walletFile
          /\ sessionFile' = sessionFile
          /\ call' = call
          /\ keysGenerated' = keysGenerated
          /\ sessionsIssued' = sessionsIssued
          /\ uuidsIssued' = uuidsIssued
          /\ fetchWithPayment' = fetchWithPayment
          /\ currentMaxCost' = currentMaxCost
          /\ setup' = setup
          /\ proxyWallets' = proxyWallets]_vars

\* C24 happens: a status run displayed "corrupt" and the corrupt file is still
\* there.
C24_Witness ==
    /\ report.runs = 1
    /\ report.wallet
    /\ report.session = "corrupt"
    /\ sessionFile = CorruptFile

\* C25: once a wallet file exists, no step of any operation, in any order or
\* interleaving (two overlapping getOrCreateWallet calls included), changes
\* its address or its walletId, or removes it.
C25_WalletImmutable ==
    [][walletFile.exists =>
          /\ walletFile'.exists
          /\ walletFile'.address = walletFile.address
          /\ walletFile'.walletId = walletFile.walletId]_vars

\* C26: pollBalance eventually resolves, also when every balance check
\* fails with a network error.
C26_PollResolves == <>(poll.pc = "resolved")

\* C27: whenever no x402Fetch call is in flight, the shared cap
\* _currentMaxCost is undefined: a call resets it when it returns and when it
\* throws, and a call that fails for want of a wallet never sets it.
C27_CapUndefinedWhenIdle ==
    (\A c \in Calls : call[c].pc \in {"idle", "done"}) => currentMaxCost = NoCap
\* Both calls ran with a cap and have ended, one by throwing and one by
\* returning a response.
C27_Witness ==
    /\ \A c \in Calls : call[c].pc = "done" /\ call[c].cap # NoCap
    /\ \E c \in Calls : call[c].outcome = "error"
    /\ \E c \in Calls : call[c].outcome = "response"
    /\ currentMaxCost = NoCap

\* C28: the session getSession(walletId, address) returns is bound to the
\* requested wallet: its address is the lower-cased requested address, also
\* when the persisted record was established for a different wallet.
C28_SessionBoundToWallet ==
    \A c \in Calls :
        call[c].gsPath # "none" => call[c].session.address = ToLowerCase(WalletAddress)

\* C29 (as stated): whenever runStatus would report the persisted session as
\* active, a getSession call made at the same instant returns that persisted
\* session without running an establishment.
C29_StatusAgreesWithGetSession ==
    [][\A c \in Calls :
          (/\ call[c].pc = "session"
           /\ call'[c].pc # "session"
           /\ StatusLine(sessionFile, now) = "active")
          => /\ call'[c].gsPath = "loaded"
             /\ call'[c].session = sessionFile.data]_vars

\* C29 (amended): for a readable session file, runStatus and getSession agree
\* when more than the five-minute renewal buffer remains (active, and the
\* persisted session is returned) and when nothing remains (expired, and an
\* establishment starts); in between, runStatus reports the session as active
\* while getSession starts an establishment.
C29_AgreementOutsideBuffer ==
    [][\A c \in Calls :
          (/\ call[c].pc = "session"
           /\ call'[c].pc # "session"
           /\ sessionFile.exists
           /\ ~sessionFile.corrupt)
          => LET remaining == sessionFile.data.expiresAt - now IN
             /\ remaining > BufferMs =>
                   /\ StatusLine(sessionFile, now) = "active"
                   /\ call'[c].gsPath = "loaded"
                   /\ call'[c].session = sessionFile.data
             /\ (remaining > 0 /\ remaining <= BufferMs) =>
                   /\ StatusLine(sessionFile, now) = "active"
                   /\ call'[c].pc = "nonce"
                   /\ call'[c].gsPath = "none"
             /\ remaining <= 0 =>
                   /\ StatusLine(sessionFile, now) = "expired"
                   /\ call'[c].pc = "nonce"
                   /\ call'[c].gsPath = "none"]_vars
\* A status run has reported the session as active, and getSession, with the
\* same file at the same instant, has started an establishment.
C29_Witness ==
    /\ report.runs = 1
    /\ report.session = "active"
    /\ StatusLine(sessionFile, now) = "active"
    /\ \E c \in Calls : call[c].pc = "nonce" /\ call[c].gsPath = "none"

\* C30: the payment client is initialised at most once: the first x402Fetch
\* that finds a wallet builds it and caches the wrapped fetch, every later
\* call reuses it; a call made while no wallet exists fails with "No wallet
\* configured", caches nothing and sends no request, and a later call made
\* once a wallet exists initialises and sends.
C30_ClientInitialisedOnce ==
    /\ Cardinality({c \in Calls : call[c].built}) <= 1
    /\ fetchWithPayment <=> \E c \in Calls : call[c].built
    /\ \A c \in Calls :
          IF call[c].error = "No wallet configured. Run signal402_setup first."
          THEN ~call[c].built /\ call[c].nSend = 0 /\ call[c].log = <<>>
          ELSE call[c].pc # "idle" =>
                  /\ call[c].nSend >= 1
                  /\ call[c].built \/ \E d \in Calls : d < c /\ call[d].built
                  /\ call[c].built => \A d \in Calls : d < c => call[d].nSend = 0
\* The first call found no wallet and failed without sending; a wallet was
\* then created, and the second call built the client and sent its request.
C30_Witness ==
    /\ call[1].error = "No wallet configured. Run signal402_setup first."
    /\ call[1].kind = "discovery"
    /\ call[1].nSend = 0
    /\ call[2].built
    /\ call[2].nSend = 1
    /\ fetchWithPayment
    /\ \E i \in Setups : setup[i].wrote

C32_NoArgsNoRequest ==
    \A c \in Calls :
        (~call[c].args.url /\ ~call[c].args.name /\ call[c].pc # "idle") =>
            /\ call[c].pc = "done"
            /\ call[c].nSend = 0
            /\ call[c].nPaySign = 0
            /\ call[c].log = <<>>
            /\ ~call[c].built
            /\ call[c].guard = "none"
            /\ \/ /\ call[c].kind = "assess"
                  /\ call[c].tool = ToolResult(FALSE, "Please provide either a url or name to assess.")
               \/ /\ call[c].kind = "probe"
                  /\ call[c].tool = ToolResult(FALSE, "Provide either a name or url to probe.")
               \/ /\ call[c].kind = "fetchProbe"
                  /\ call[c].outcome = "error"
                  /\ call[c].error = "Provide either name or url"
\* A probe without arguments was answered with the prompt, next to a call
\* with arguments that went as far as a payment signing request.
C32_Witness ==
    /\ ~call[1].args.url /\ ~call[1].args.name
    /\ call[1].kind = "probe" /\ call[1].pc = "done"
    /\ call[2].args.name /\ call[2].nPaySign = 1

\* C33: what is signed is what is sent: the canonical message signRequest
\* signs has exactly six fields in the order tag, method, path, sha256 body
\* digest, timestamp, nonce; the X-Clara-Timestamp and X-Clara-Nonce headers
\* carry the values embedded in that message; and the method, path and body
\* signed are those of the sign-raw request that carries the headers.
C33_SignedIsSent ==
    \A c \in Calls :
        call[c].nPaySign >= 1 =>
            LET lines == call[c].payHeaders.signature.lines
                req == call[c].payRequest IN
            /\ Len(lines) = 6
            /\ lines[1] = "CLARA-REQUEST-SIG-V1"
            /\ lines[2] = req.method
            /\ lines[3] = req.path
            /\ lines[4] = <<"sha256:", Sha256Hex(req.body)>>
            /\ lines[5] = call[c].payHeaders.timestamp
            /\ lines[6] = call[c].payHeaders.nonce
            /\ req.method = "POST"
            /\ req.body = SignBody(call[c])
            /\ {"X-Clara-Timestamp", "X-Clara-Nonce", "X-Clara-Signature"} \subseteq call[c].payHeaders.names
\* Both calls have sent a payment sign-raw, at different seconds and with
\* different nonces.
C33_Witness ==
    /\ \A c \in Calls : call[c].nPaySign = 1
    /\ call[1].payHeaders.timestamp # call[2].payHeaders.timestamp
    /\ call[1].payHeaders.nonce # call[2].payHeaders.nonce

\* C34: signTypedData returns a signature only from a successful sign-raw
\* reply that contains one: the `signature` field, else the `result` field;
\* the value returned starts with 0x, an already prefixed value is returned
\* unchanged and normalising it again changes nothing; a status that is not a
\* success, and a reply with neither field, raise an error and return no
\* signature.
C34_SignatureFromSuccessfulReply ==
    \A c \in Calls :
        call[c].payReplied =>
            LET reply == call[c].payReply
                field == IF reply.signature # <<>> THEN reply.signature ELSE reply.result
                sig == call[c].paySig IN
            IF reply.status \in 200..299 /\ field # <<>>
            THEN /\ call[c].paymentHeader
                 /\ Len(sig) >= 2 /\ sig[1] = "0" /\ sig[2] = "x"
                 /\ (field[1] = "0" /\ field[2] = "x") => sig = field
                 /\ ~(field[1] = "0" /\ field[2] = "x") => sig = <<"0", "x">> \o field
                 /\ Normalize0x(sig) = sig
            ELSE /\ ~call[c].paymentHeader
                 /\ sig = <<>>
                 /\ call[c].pc = "done"
                 /\ call[c].outcome = "error"
                 /\ call[c].failed = "pay-sign-raw"
                 /\ call[c].nSend = 1
\* One reply carried an already prefixed signature, the other only an
\* unprefixed result; both were returned with a single 0x prefix.
C34_Witness ==
    /\ call[1].payReply = SignRawReply(200, <<"0", "x", "a", "b">>, <<"c", "d">>)
    /\ call[1].paySig = <<"0", "x", "a", "b">>
    /\ call[2].payReply = SignRawReply(200, <<>>, <<"c", "d">>)
    /\ call[2].paySig = <<"0", "x", "c", "d">>

\* The value of a hexadecimal digit, and of the byte two digits spell.
HexValue(ch) == CHOOSE d \in 0..15 : HexDigits[d + 1] = ch
ByteAt(hex, i) == 16 * HexValue(hex[2 * i + 1]) + HexValue(hex[2 * i + 2])
\* The number the four bytes ending at byte `last` hold.
WordEndingAt(hex, last) ==
    ((ByteAt(hex, last - 3) * 256 + ByteAt(hex, last - 2)) * 256 + ByteAt(hex, last - 1)) * 256
    + ByteAt(hex, last)

\* C35: the signature header signRequest produces encodes exactly 65 bytes, r
\* then s then a last byte equal to the recovery id plus 27 (27 or 28), in
\* hexadecimal after a 0x prefix.
C35_SignatureIs65Bytes ==
    \A c \in Calls :
        call[c].sigHeader # <<>> =>
            LET hex == call[c].sigHeader
                sig == call[c].ecdsa IN
            /\ Len(hex) = 2 + 2 * 65
            /\ hex[1] = "0" /\ hex[2] = "x"
            /\ \A i \in 3..Len(hex) : \E d \in 1..16 : HexDigits[d] = hex[i]
            /\ \A i \in 1..28 : ByteAt(hex, i) = 0
            /\ WordEndingAt(hex, 32) = sig.r
            /\ \A i \in 33..60 : ByteAt(hex, i) = 0
            /\ WordEndingAt(hex, 64) = sig.s
            /\ ByteAt(hex, 65) = sig.recovery + 27
            /\ ByteAt(hex, 65) \in {27, 28}
\* One header was made from a four-byte r with recovery id 1, the other from
\* a one-byte r with recovery id 0.
C35_Witness ==
    /\ \A c \in Calls : call[c].sigHeader # <<>>
    /\ call[1].ecdsa.r = 2147483647 /\ call[1].ecdsa.recovery = 1
    /\ call[2].ecdsa.r = 1 /\ call[2].ecdsa.recovery = 0

Next ==
    \/ Tick
    \/ \E c \in Calls : Signal402Call(c)
    \/ \E c \in Calls : DiscoveryCall(c)
    \/ \E c \in Calls : Signal402CallNoWallet(c)
    \/ \E c \in Calls : X402FetchNoWallet(c)
    \/ \E c \in Calls : FirstResponse(c)
    \/ \E c \in Calls : GuardHook(c)
    \/ \E c \in Calls : GetSession(c)
    \/ \E c \in Calls : NonceResponse(c)
    \/ \E c \in Calls : BootSignResponse(c)
    \/ \E c \in Calls : CreateResponse(c)
    \/ \E c \in Calls : PaySignResponse(c)
    \/ \E c \in Calls : SecondResponse(c)

Spec == Init /\ [][Next]_vars

\* signTypedData from its sign-raw request on, over every reply: both
\* invocations have passed the guard and sent the request.
SignerInit ==
    /\ now = 0
    /\ walletFile = WalletData(WalletAddress, WalletId, "none")
    /\ sessionFile = AbsentFile
    /\ fetchWithPayment = TRUE
    /\ currentMaxCost = NoCap
    /\ keysGenerated = 1
    /\ sessionsIssued = 1
    /\ uuidsIssued = 0
    /\ CommandsInit
    /\ call = [c \in Calls |->
                  [IdleCall EXCEPT !.pc = "paySign", !.kind = "discovery", !.first = 402,
                                   !.scheme = "exact", !.amount = 10000, !.hasAmount = TRUE,
                                   !.guard = "pass", !.nSend = 1, !.nPaySign = 1, !.built = (c = 1)]]

SignerNext ==
    \/ \E c \in Calls : AnySignRawResponse(c)
    \/ \E c \in Calls : SecondResponse(c)

SignerSpec == SignerInit /\ [][SignerNext]_vars

\* session.ts:221-233  signRequest from secp.signAsync's result on: the
\* signature is encoded into the X-Clara-Signature header.
SignRequestEncodes(c) ==
    /\ call[c].sigHeader = <<>>
    /\ call' = [call EXCEPT ![c].sigHeader = EncodeSignature(call[c].ecdsa)]
    /\ UNCHANGED <<now, walletFile, sessionFile, fetchWithPayment, currentMaxCost, keysGenerated,
                   sessionsIssued, uuidsIssued, report, poll, setup, proxyWallets>>

\* The encoding of signRequest alone, over the signatures secp.signAsync may
\* return to either invocation.
EncodeInit ==
    /\ now = 0
    /\ walletFile = WalletData(WalletAddress, WalletId, "none")
    /\ sessionFile = FileOf(SessionData(1, ToLowerCase(WalletAddress), KeyPair(1), 3 * TickMs, 0))
    /\ fetchWithPayment = TRUE
    /\ currentMaxCost = NoCap
    /\ keysGenerated = 1
    /\ sessionsIssued = 1
    /\ uuidsIssued = 0
    /\ CommandsInit
    /\ call \in [Calls -> {[IdleCall EXCEPT !.pc = "session", !.kind = "discovery", !.first = 402,
                                             !.scheme = "exact", !.amount = 10000, !.hasAmount = TRUE,
                                             !.guard = "pass", !.nSend = 1, !.ecdsa = e] :
                            e \in EcdsaSignatures}]

EncodeNext == \E c \in Calls : SignRequestEncodes(c)

EncodeSpec == EncodeInit /\ [][EncodeNext]_vars

\* The assess and probe tools and fetchProbe, with every combination of their
\* two optional arguments, followed through the payment flow.
ToolInit ==
    /\ now = 0
    /\ walletFile \in {WalletData(WalletAddress, WalletId, "none"), NoWalletFile}
    /\ sessionFile = AbsentFile
    /\ fetchWithPayment = FALSE
    /\ currentMaxCost = NoCap
    /\ keysGenerated = 1
    /\ sessionsIssued = 1
    /\ uuidsIssued = 0
    /\ CommandsInit
    /\ call \in [Calls -> {[IdleCall EXCEPT !.args = a] : a \in ToolArgs}]

ToolNext ==
    \/ \E c \in Calls : Signal402Assess(c)
    \/ \E c \in Calls : Signal402Probe(c)
    \/ \E c \in Calls : FetchProbe(c)
    \/ \E c \in Calls : FirstResponse(c)
    \/ \E c \in Calls : GuardHook(c)
    \/ \E c \in Calls : GetSession(c)
    \/ \E c \in Calls : NonceResponse(c)
    \/ \E c \in Calls : BootSignResponse(c)
    \/ \E c \in Calls : CreateResponse(c)
    \/ \E c \in Calls : PaySignResponse(c)
    \/ \E c \in Calls : SecondResponse(c)

ToolSpec == ToolInit /\ [][ToolNext]_vars

\* Wallet creation together with the start of x402Fetch calls: the wallet file
\* may be absent at first, and calls are followed up to the guard's decision.
SetupInit ==
    /\ now = 0
    /\ walletFile \in {WalletData(WalletAddress, WalletId, "none"), NoWalletFile}
    /\ sessionFile = AbsentFile
    /\ fetchWithPayment = FALSE
    /\ currentMaxCost = NoCap
    /\ keysGenerated = 1
    /\ sessionsIssued = 1
    /\ uuidsIssued = 0
    /\ CommandsInit
    /\ call = [c \in Calls |-> IdleCall]

SetupNext ==
    \/ \E i \in Setups : GetOrCreateWallet(i)
    \/ \E i \in Setups : CreateWalletResponse(i)
    \/ \E i \in Setups : LookupResponse(i)
    \/ \E c \in Calls : Signal402Call(c)
    \/ \E c \in Calls : DiscoveryCall(c)
    \/ \E c \in Calls : Signal402CallNoWallet(c)
    \/ \E c \in Calls : X402FetchNoWallet(c)
    \/ \E c \in Calls : FirstResponse(c)
    \/ \E c \in Calls : GuardHook(c)
    \/ RunStatus

SetupSpec == SetupInit /\ [][SetupNext]_vars

\* pollBalance alone, for a wallet that exists.  Timers fire and pending
\* requests are answered or fail: each step that is possible is eventually
\* taken.
PollInit ==
    /\ now = 0
    /\ walletFile = WalletData(WalletAddress, WalletId, "none")
    /\ sessionFile = AbsentFile
    /\ fetchWithPayment = FALSE
    /\ currentMaxCost = NoCap
    /\ keysGenerated = 1
    /\ sessionsIssued = 1
    /\ uuidsIssued = 0
    /\ CommandsInit
    /\ call = [c \in Calls |-> IdleCall]

PollNext == PollBalance \/ PollTimer \/ PollCheck

PollSpec ==
    PollInit /\ [][PollNext]_vars /\ WF_vars(PollBalance) /\ WF_vars(PollTimer) /\ WF_vars(PollCheck)

\* getSession and runStatus alone, over the session files of SessionFiles.
SessionNext ==
    \/ RunStatus
    \/ \E c \in Calls : GetSession(c)
    \/ \E c \in Calls : NonceResponse(c)
    \/ \E c \in Calls : BootSignResponse(c)
    \/ \E c \in Calls : CreateResponse(c)

SessionSpec == SessionInit /\ [][SessionNext]_vars

\* The guard hook alone, over the wider caps and requirements.
GuardNext == \E c \in Calls : GuardHook(c)

GuardSpec == GuardInit /\ [][GuardNext]_vars
====
